---------------------------- MODULE Spec2Model ----------------------------
(***************************************************************************)
(* Model of the hello-world executable that links one greeter from a      *)
(* shared library and one from a static library (src/src/main.cc,         *)
(* src/include/hello_shared.h, src/include/hello_static.h).               *)
(*                                                                         *)
(* Text is a sequence of chunks: a chunk is either a string literal       *)
(* passed to operator<< or the newline character NL.  std::cout is a      *)
(* record [buf, out, mode]: out holds the chunks delivered to file        *)
(* descriptor 1 in full, buf the chunks of which some byte is still in    *)
(* the buffer of the C stream behind std::cout, and mode is the buffering *)
(* of that stream, which the environment chooses: "none" (unbuffered),    *)
(* "line" (a terminal) or "full" (a pipe or a file).  An insertion may    *)
(* deliver pending text without any flush: always when unbuffered, at a   *)
(* newline when line buffered, and whenever the buffer, whose size the    *)
(* environment also chooses, runs full.                                   *)
(*                                                                         *)
(* The bodies of HelloShared::sayHello and HelloStatic::sayHello are not  *)
(* among the sources (only their declarations are); they are modelled    *)
(* from sections 4.1, 4.2 and 6 of the specification: each writes one     *)
(* fixed greeting line.  The greeting texts are implementation-chosen    *)
(* literals and are represented by symbolic chunks; whether sayHello      *)
(* ends its line with std::endl or with a newline character is unknown    *)
(* and is a nondeterministic choice.                                      *)
(* Standard output is assumed writable (section 4.3).                     *)
(***************************************************************************)
EXTENDS Integers, Sequences, FiniteSets, TLC

VARIABLES argc, envp, pc, objs, cout, exitCode, log, prev

vars == <<argc, envp, pc, objs, cout, exitCode, log, prev>>

--------------------------------------------------------------------------
(* Bounds *)

\* largest argument count (program name included) of an invocation
MaxArgc == 2
\* number of distinct environment variables that may be set
MaxEnvVars == 2
\* greeter instances a library client constructs
MaxInstances == 3
\* sayHello calls a library client makes
MaxCalls == 3

--------------------------------------------------------------------------
(* Values *)

NL == "\n"
\* exit status of a process that has not exited, and of one that exited with c
NoExit == <<>>
Exited(c) == <<c>>
\* the record of the earlier run: none, or the run's result
None == <<>>
Earlier(r) == <<r>>

\* the environment variables that may be set, by number
EnvVars == 1..MaxEnvVars

\* mutants of TrailingMessage: another text; a text chosen by the environment
TrailingMessage_typo == "Hello, World!"
TrailingMessage_localised ==
  IF envp = {} THEN "Hello, World from executable!" ELSE "Hallo, Welt!"

\* main.cc:12, the string literal
TrailingMessage == "Hello, World from executable!"

\* the literal HelloShared::sayHello writes
GreetingShared == "<greeting of HelloShared::sayHello>"
\* the literal HelloStatic::sayHello writes
GreetingStatic == "<greeting of HelloStatic::sayHello>"

\* the buffering of standard output: unbuffered, line buffered, fully buffered
Modes == {"none", "line", "full"}

\* std::cout when main starts, on a standard output buffered as m
EmptyStream(m) == [buf |-> <<>>, out |-> <<>>, mode |-> m]

--------------------------------------------------------------------------
(* std::ostream as main.cc uses it *)

\* how many of the chunks pending after os << s may have been delivered when
\* the insertion returns: all of them on an unbuffered stream and at a
\* newline on a line buffered one, otherwise as many as a full buffer forced
Deliveries(os, s) ==
  LET n == Len(os.buf) + 1 IN
    IF os.mode = "none" \/ (os.mode = "line" /\ s = NL) THEN {n} ELSE 0..n

\* os << s, after which the first d pending chunks have been delivered
Put(os, s, d) ==
  LET all == Append(os.buf, s) IN
    [os EXCEPT !.out = os.out \o SubSeq(all, 1, d),
               !.buf = SubSeq(all, d + 1, Len(all))]

\* the streams os << s may leave
PutAny(os, s) == {Put(os, s, d) : d \in Deliveries(os, s)}

\* os.flush(): the buffer goes to the file descriptor, in order
Flush(os) == [os EXCEPT !.out = os.out \o os.buf, !.buf = <<>>]

\* os << std::endl: a newline, then a flush, which delivers whatever the
\* insertion of the newline left pending
Endl(os) == Flush(Put(os, NL, Len(os.buf) + 1))

\* the streams os << text << std::endl may leave
PutLineEndl(os, text) == {Endl(o) : o \in PutAny(os, text)}

\* the streams os << text << '\n' may leave
PutLineNL(os, text) == UNION {PutAny(o, NL) : o \in PutAny(os, text)}

\* everything written to the stream so far, delivered or not
Written == cout.out \o cout.buf

--------------------------------------------------------------------------
(* The greeter classes *)

\* mutant of HelloShared_ctor: a constructor that reports itself
HelloShared_ctor_printing(os) ==
  [self |-> [class |-> "HelloShared", members |-> <<>>],
   os   |-> Endl(Put(os, "HelloShared constructed", 0))]

\* class HelloShared: no data members; HelloShared() = default
HelloShared_ctor(os) ==
  [self |-> [class |-> "HelloShared", members |-> <<>>], os |-> os]

\* mutants of HelloStatic_ctor: a constructor that reports itself; a class
\* with a data member
HelloStatic_ctor_printing(os) ==
  [self |-> [class |-> "HelloStatic", members |-> <<>>],
   os   |-> Endl(Put(os, "HelloStatic constructed", 0))]
HelloStatic_ctor_member(os) ==
  [self |-> [class |-> "HelloStatic", members |-> <<0>>], os |-> os]

\* class HelloStatic: no data members; HelloStatic() = default
HelloStatic_ctor(os) ==
  [self |-> [class |-> "HelloStatic", members |-> <<>>], os |-> os]

\* ~HelloShared(), implicit, and ~HelloStatic() = default: no effect
Greeter_dtor(os) == os

\* mutant of HelloShared_sayHello: the greeter counts its calls and greets
\* differently after the first
HelloShared_sayHello_counting(self, os) ==
  LET text == IF self.members = <<>> THEN GreetingShared ELSE "<hello again>"
  IN  {[self |-> [self EXCEPT !.members = Append(@, 1)], os |-> o] :
         o \in PutLineEndl(os, text) \cup PutLineNL(os, text)}

\* auto HelloShared::sayHello() -> void; the outcomes of a call
HelloShared_sayHello(self, os) ==
  {[self |-> self, os |-> o] :
     o \in PutLineEndl(os, GreetingShared) \cup PutLineNL(os, GreetingShared)}

\* auto HelloStatic::sayHello() -> void; the outcomes of a call
HelloStatic_sayHello(self, os) ==
  {[self |-> self, os |-> o] :
     o \in PutLineEndl(os, GreetingStatic) \cup PutLineNL(os, GreetingStatic)}

\* o.sayHello(), bound statically by the declared class of o
SayHello(o, os) ==
  IF o.class = "HelloShared" THEN HelloShared_sayHello(o, os)
                             ELSE HelloStatic_sayHello(o, os)

\* an object with automatic storage: the value and whether it is alive
Local(o) == [class |-> o.class, members |-> o.members, alive |-> TRUE]
Value(l) == [class |-> l.class, members |-> l.members]
Destroyed(l) == [l EXCEPT !.alive = FALSE]

Event(op, i) == [op |-> op, obj |-> i]

\* the objects of main, by their place in the frame
shared_lib == 1
static_lib == 2

--------------------------------------------------------------------------
(* main *)

Init ==
  /\ argc \in 1..MaxArgc
  /\ envp \in SUBSET EnvVars
  /\ pc = "l6"
  /\ objs = <<>>
  /\ \E m \in Modes : cout = EmptyStream(m)
  /\ exitCode = NoExit
  /\ log = <<>>
  /\ prev = None

\* HelloShared shared_lib{};
Line6 ==
  /\ pc = "l6"
  /\ LET r == HelloShared_ctor(cout) IN
       /\ objs' = Append(objs, Local(r.self))
       /\ cout' = r.os
  /\ log' = Append(log, Event("construct", shared_lib))
  /\ pc' = "l7"
  /\ UNCHANGED <<argc, envp, exitCode, prev>>

\* HelloStatic static_lib{};
Line7 ==
  /\ pc = "l7"
  /\ LET r == HelloStatic_ctor(cout) IN
       /\ objs' = Append(objs, Local(r.self))
       /\ cout' = r.os
  /\ log' = Append(log, Event("construct", static_lib))
  /\ pc' = "l9"
  /\ UNCHANGED <<argc, envp, exitCode, prev>>

\* mutant of Line9: the static greeter is called in place of the shared one
Line9_static ==
  /\ pc = "l9"
  /\ \E r \in HelloStatic_sayHello(Value(objs[static_lib]), cout) :
       /\ objs' = [objs EXCEPT ![static_lib] = Local(r.self)]
       /\ cout' = r.os
  /\ log' = Append(log, Event("sayHello", static_lib))
  /\ pc' = "l10"
  /\ UNCHANGED <<argc, envp, exitCode, prev>>

\* shared_lib.sayHello();
Line9 ==
  /\ pc = "l9"
  /\ \E r \in HelloShared_sayHello(Value(objs[shared_lib]), cout) :
       /\ objs' = [objs EXCEPT ![shared_lib] = Local(r.self)]
       /\ cout' = r.os
  /\ log' = Append(log, Event("sayHello", shared_lib))
  /\ pc' = "l10"
  /\ UNCHANGED <<argc, envp, exitCode, prev>>

\* mutants of Line10: control goes back to line 9; the trailing message is
\* written in place of the static greeting
Line10_loop ==
  /\ pc = "l10"
  /\ \E r \in HelloStatic_sayHello(Value(objs[static_lib]), cout) :
       /\ objs' = [objs EXCEPT ![static_lib] = Local(r.self)]
       /\ cout' = r.os
  /\ log' = Append(log, Event("sayHello", static_lib))
  /\ pc' = "l9"
  /\ UNCHANGED <<argc, envp, exitCode, prev>>
Line10_trailing ==
  /\ pc = "l10"
  /\ cout' \in PutLineEndl(cout, TrailingMessage)
  /\ log' = Append(log, Event("write", 0))
  /\ pc' = "l12"
  /\ UNCHANGED <<argc, envp, objs, exitCode, prev>>

\* static_lib.sayHello();
Line10 ==
  /\ pc = "l10"
  /\ \E r \in HelloStatic_sayHello(Value(objs[static_lib]), cout) :
       /\ objs' = [objs EXCEPT ![static_lib] = Local(r.self)]
       /\ cout' = r.os
  /\ log' = Append(log, Event("sayHello", static_lib))
  /\ pc' = "l12"
  /\ UNCHANGED <<argc, envp, exitCode, prev>>

\* std::cout << "Hello, World from executable!" << std::endl;
Line12 ==
  /\ pc = "l12"
  /\ cout' \in PutLineEndl(cout, TrailingMessage)
  /\ log' = Append(log, Event("write", 0))
  /\ pc' = "l13"
  /\ UNCHANGED <<argc, envp, objs, exitCode, prev>>

\* mutant of ReturnValue: the argument count is returned
ReturnValue_argc == argc

\* the operand of main's return statement
ReturnValue == 0

\* return 0; the locals are destroyed, the stream is flushed, the process exits
Line13 ==
  /\ pc = "l13"
  /\ objs' = [i \in DOMAIN objs |-> Destroyed(objs[i])]
  /\ cout' = Flush(Greeter_dtor(Greeter_dtor(cout)))
  /\ exitCode' = Exited(ReturnValue)
  /\ log' = Append(log, Event("exit", 0))
  /\ pc' = "done"
  /\ UNCHANGED <<argc, envp, prev>>

Next == Line6 \/ Line7 \/ Line9 \/ Line10 \/ Line12 \/ Line13

Spec == Init /\ [][Next]_vars

\* every statement returns: main is never suspended
FairSpec == Spec /\ WF_vars(Next)

--------------------------------------------------------------------------
(* Any client of the two classes: it constructs greeters and calls        *)
(* sayHello on them in any order.  main is one such client.               *)

NumCalls == Cardinality({k \in 1..Len(log) : log[k].op = "sayHello"})

InitLib ==
  /\ argc = 1
  /\ envp = {}
  /\ pc = "client"
  /\ objs = <<>>
  /\ \E m \in Modes : cout = EmptyStream(m)
  /\ exitCode = NoExit
  /\ log = <<>>
  /\ prev = None

\* HelloShared x{};
ClientNewShared ==
  /\ pc = "client"
  /\ Len(objs) < MaxInstances
  /\ LET r == HelloShared_ctor(cout) IN
       /\ objs' = Append(objs, Local(r.self))
       /\ cout' = r.os
  /\ log' = Append(log, Event("construct", Len(objs) + 1))
  /\ UNCHANGED <<argc, envp, pc, exitCode, prev>>

\* HelloStatic x{};
ClientNewStatic ==
  /\ pc = "client"
  /\ Len(objs) < MaxInstances
  /\ LET r == HelloStatic_ctor(cout) IN
       /\ objs' = Append(objs, Local(r.self))
       /\ cout' = r.os
  /\ log' = Append(log, Event("construct", Len(objs) + 1))
  /\ UNCHANGED <<argc, envp, pc, exitCode, prev>>

\* x.sayHello(); for the i-th object constructed
ClientSayHello(i) ==
  /\ pc = "client"
  /\ NumCalls < MaxCalls
  /\ \E r \in SayHello(Value(objs[i]), cout) :
       /\ objs' = [objs EXCEPT ![i] = Local(r.self)]
       /\ cout' = r.os
  /\ log' = Append(log, Event("sayHello", i))
  /\ UNCHANGED <<argc, envp, pc, exitCode, prev>>

NextLib ==
  \/ ClientNewShared
  \/ ClientNewStatic
  \/ \E i \in 1..Len(objs) : ClientSayHello(i)

SpecLib == (Init \/ InitLib) /\ [][Next \/ NextLib]_vars

--------------------------------------------------------------------------
(* The executable run a second time, from any environment *)

\* what a finished run leaves behind, with the environment it ran in
RunResult ==
  [argc |-> argc, envp |-> envp, mode |-> cout.mode,
   out |-> cout.out, code |-> exitCode]

\* the executable is started again after it has exited
Rerun ==
  /\ pc = "done"
  /\ prev = None
  /\ prev' = Earlier(RunResult)
  /\ argc' \in 1..MaxArgc
  /\ envp' \in SUBSET EnvVars
  /\ pc' = "l6"
  /\ objs' = <<>>
  /\ \E m \in Modes : cout' = EmptyStream(m)
  /\ exitCode' = NoExit
  /\ log' = <<>>

SpecRuns == Init /\ [][Next \/ Rerun]_vars

--------------------------------------------------------------------------
(* Properties *)

RECURSIVE SplitFrom(_, _, _, _)
\* the complete (newline-terminated) lines of chunks t[i..], after the
\* complete lines `done` and the unterminated chunks `cur`
SplitFrom(t, i, done, cur) ==
  IF i > Len(t) THEN [lines |-> done, rest |-> cur]
  ELSE IF t[i] = NL THEN SplitFrom(t, i + 1, Append(done, cur), <<>>)
  ELSE SplitFrom(t, i + 1, done, Append(cur, t[i]))

\* a text cut at its newlines: the terminated lines and what follows the last
SplitLines(t) == SplitFrom(t, 1, <<>>, <<>>)

IsPrefix(s, t) == Len(s) <= Len(t) /\ SubSeq(t, 1, Len(s)) = s

\* the events of a run, in the order section 2 gives them
ExpectedEvents ==
  << Event("construct", shared_lib), Event("construct", static_lib),
     Event("sayHello", shared_lib),  Event("sayHello", static_lib),
     Event("write", 0),              Event("exit", 0) >>

\* the three lines of section 6
ExpectedLines ==
  << <<GreetingShared>>, <<GreetingStatic>>,
     <<"Hello, World from executable!">> >>

\* the text of the three lines
FinalOutput ==
  <<GreetingShared, NL, GreetingStatic, NL,
    "Hello, World from executable!", NL>>

Last(q) == q[Len(q)]

\* C1: the events of a run are, in this order and each once, construct the
\* shared greeter, construct the static greeter, greet with the shared
\* greeter, greet with the static greeter, write the trailing message, exit;
\* at every point the events so far are the first ones of that list, and a
\* finished run has had them all.
C1_EventOrder ==
  /\ IsPrefix(log, ExpectedEvents)
  /\ (pc = "done" <=> log = ExpectedEvents)
  /\ \A i, j \in 1..Len(log) : i # j => log[i] # log[j]

C1_Witness == pc = "done" /\ Len(log) = 6 /\ log[3].obj = shared_lib

\* C2: the standard output of a complete run is exactly three terminated
\* lines: the shared greeter's line, the static greeter's line and the
\* line "Hello, World from executable!"; nothing follows the last newline
\* and no other line is written at any point of a run, in any environment.
C2_ThreeLines ==
  /\ IsPrefix(SplitLines(Written).lines, ExpectedLines)
  /\ pc = "done" =>
       /\ SplitLines(cout.out) = [lines |-> ExpectedLines, rest |-> <<>>]
       /\ cout.buf = <<>>

C2_Witness ==
  /\ pc = "done"
  /\ Len(SplitLines(cout.out).lines) = 3
  /\ argc > 1
  /\ envp # {}

\* C3: every run reaches its exit, and the exit code is 0: the exit status
\* is never anything but "not exited" or 0, and it is 0 exactly when main
\* has returned.
C3_ExitsZero ==
  /\ [](exitCode \in {NoExit, Exited(0)})
  /\ [](pc = "done" <=> exitCode = Exited(0))
  /\ <>(exitCode = Exited(0))

C3_Witness == pc = "done" /\ exitCode = Exited(0) /\ argc = 1

\* a step that constructs a greeter; a step that calls sayHello
ConstructStep == log' = Append(log, Last(log')) /\ Last(log').op = "construct"
GreetStep == log' = Append(log, Last(log')) /\ Last(log').op = "sayHello"
NoGreetYet == \A k \in 1..Len(log) : log[k].op # "sayHello"

\* C4: constructing a greeter of either class, any number of times, writes
\* nothing and changes nothing observable (the stream, the exit status and
\* the objects that already exist are as before); as long as sayHello has
\* not been called, nothing has been written to standard output, so it is
\* empty after main has constructed both greeters.
C4_ConstructionSilent ==
  /\ [](NoGreetYet => Written = <<>>)
  /\ [][ConstructStep =>
          /\ cout' = cout
          /\ exitCode' = exitCode
          /\ SubSeq(objs', 1, Len(objs)) = objs]_vars

C4_Witness ==
  /\ pc = "client"
  /\ Len(objs) >= 3
  /\ objs[1].class = objs[2].class
  /\ objs[3].class # objs[1].class
  /\ NoGreetYet
  /\ Written = <<>>

\* C5: when sayHello is called on an instance that was the target of the
\* preceding call as well, it appends one line, the same line the preceding
\* call appended, and leaves every object as it was: no state accumulates.
C5_GreetIdempotent ==
  [][(GreetStep /\ Len(log) > 0 /\ Last(log') = Last(log)) =>
        LET before == SplitLines(Written)
            after  == SplitLines(Written')
        IN  /\ before.rest = <<>>
            /\ after.rest = <<>>
            /\ Len(before.lines) > 0
            /\ after.lines = Append(before.lines, Last(before.lines))
            /\ objs' = objs]_vars

C5_Witness ==
  /\ pc = "client"
  /\ Len(log) >= 2
  /\ Last(log).op = "sayHello"
  /\ log[Len(log) - 1] = Last(log)
  /\ Len(SplitLines(Written).lines) >= 2

\* C6: two runs of the executable, from any two environments, end with the
\* same standard output and the same exit code.
C6_Deterministic ==
  (pc = "done" /\ prev # None) =>
     /\ prev[1].out = cout.out
     /\ prev[1].code = exitCode

C6_Witness ==
  /\ pc = "done"
  /\ prev # None
  /\ prev[1].argc # argc
  /\ prev[1].envp # envp
  /\ prev[1].mode # cout.mode
  /\ prev[1].out = cout.out

\* the text with the shared greeter's literal replaced by the static one's
Renamed(t) ==
  [k \in 1..Len(t) |-> IF t[k] = GreetingShared THEN GreetingStatic ELSE t[k]]
RenamedStream(os) ==
  [os EXCEPT !.buf = Renamed(os.buf), !.out = Renamed(os.out)]

\* C7: the two greeters satisfy one contract: constructing either leaves
\* the stream as it was and yields an object without data members, and from
\* any state a sayHello of the shared greeter and a sayHello of the static
\* greeter have the same effect on the stream up to the text of the greeting
\* (one line appended) and none on the object.
C7_SameContract ==
  LET sh == HelloShared_ctor(cout)
      st == HelloStatic_ctor(cout)
      a  == HelloShared_sayHello(sh.self, cout)
      b  == HelloStatic_sayHello(st.self, RenamedStream(cout))
  IN  /\ sh.os = cout
      /\ st.os = cout
      /\ sh.self.members = st.self.members
      /\ {RenamedStream(r.os) : r \in a} = {r.os : r \in b}
      /\ \A r \in a :
           /\ r.self = sh.self
           /\ r.os.out \o r.os.buf = Written \o <<GreetingShared, NL>>
      /\ \A r \in b :
           /\ r.self = st.self
           /\ r.os.out \o r.os.buf
                = Renamed(Written) \o <<GreetingStatic, NL>>

C7_Witness ==
  /\ pc = "client"
  /\ \E i, j \in 1..Len(objs) : objs[i].class # objs[j].class
  /\ \E k \in 1..Len(Written) : Written[k] = GreetingShared
  /\ \E k \in 1..Len(Written) : Written[k] = GreetingStatic

\* the statement after each statement of main
SuccPc(p) ==
  CASE p = "l6"  -> "l7"
    [] p = "l7"  -> "l9"
    [] p = "l9"  -> "l10"
    [] p = "l10" -> "l12"
    [] p = "l12" -> "l13"
    [] p = "l13" -> "done"
    [] OTHER     -> "none"

\* C8: main is one linear sequence of steps that runs to completion: every
\* step goes to the next statement and is one event (none is repeated, none
\* skipped, there is no loop), and as long as each step returns the exit is
\* eventually reached.
C8_RunsToCompletion ==
  /\ [][pc' = SuccPc(pc) /\ Len(log') = Len(log) + 1]_vars
  /\ <>(pc = "done")

C8_Witness == pc = "done" /\ Len(log) = Len(ExpectedEvents)

\* C9: the greeters are stateless and main owns exactly one of each: no
\* object has a data member; there are at most two objects, the first a
\* HelloShared and the second a HelloStatic; once constructed both are alive
\* until main returns, and none is destroyed before the trailing message has
\* been written; a sayHello call changes nothing but standard output.
C9_StatelessOwned ==
  /\ [](/\ \A i \in 1..Len(objs) : objs[i].members = <<>>
        /\ Len(objs) <= 2
        /\ Len(objs) >= 1 => objs[shared_lib].class = "HelloShared"
        /\ Len(objs) >= 2 => objs[static_lib].class = "HelloStatic"
        /\ pc \in {"l9", "l10", "l12", "l13"} =>
             (Len(objs) = 2 /\ \A i \in 1..2 : objs[i].alive)
        /\ (\E i \in 1..Len(objs) : ~objs[i].alive) =>
             (pc = "done"
              /\ \E k \in 1..Len(cout.out) :
                   cout.out[k] = "Hello, World from executable!"))
  /\ [][GreetStep =>
          (objs' = objs /\ exitCode' = exitCode /\ cout' # cout)]_vars

C9_Witness ==
  /\ pc = "l13"
  /\ Len(objs) = 2
  /\ objs[shared_lib].alive
  /\ objs[static_lib].alive
  /\ Last(log) = Event("write", 0)

\* C10: standard output only grows by appending: each step keeps what was
\* delivered and what was written as the beginning of what is delivered and
\* written after it; what is written is always a beginning of the final
\* three lines, so the trailing literal is there only after both greeters'
\* lines; and at the exit all three lines have been delivered and nothing
\* is left in the buffer.
C10_AppendOnly ==
  /\ [](/\ IsPrefix(Written, FinalOutput)
        /\ IsPrefix(cout.out, Written)
        /\ pc = "done" => (cout.out = FinalOutput /\ cout.buf = <<>>))
  /\ [][IsPrefix(cout.out, cout'.out) /\ IsPrefix(Written, Written')]_vars

C10_Witness ==
  /\ pc = "l13"
  /\ cout.out = FinalOutput
  /\ cout.buf = <<>>

==========================================================================
